---- MODULE Spec2Model ----
(***************************************************************************)
(* Model of the Celestia node REST client (src/src/lib.rs, types.rs).      *)
(*                                                                         *)
(* Text that is concatenated into URLs is a sequence of one-character      *)
(* strings, so that format!() is concatenation and a path can be split     *)
(* and parsed again.  A response body is either text that is not JSON or   *)
(* a JSON document (null, bool, number, string, array, object); the        *)
(* derived Deserialize / Serialize impls are the operators Decode/Encode.  *)
(* A JSON number is kept as sign, integer flag and a magnitude             *)
(* hi * 2^16 + lo, so that the 32-bit width of u32 fields is kept.         *)
(***************************************************************************)
EXTENDS Integers, Sequences, FiniteSets, TLC

(***************************************************************************)
(* Bounds of the model.                                                    *)
(***************************************************************************)
\* number of callers that share one Context concurrently
NumCallers == 2
\* heights 0 .. MaxSmallHeight are passed to the operations, besides the
\* larger ones listed in Heights
MaxSmallHeight == 1
\* number of entries of the longest list in a generated response
MaxListLen == 2

Callers == 1..NumCallers

(***************************************************************************)
(* Constants of lib.rs.                                                    *)
(***************************************************************************)
DEFAULT_BASE_URL ==
    <<"h","t","t","p",":","/","/","l","o","c","a","l","h","o","s","t",":",
      "2","6","6","5","8">>

ENDPOINT_BALANCE == <<"b","a","l","a","n","c","e">>
ENDPOINT_DATA_AVAILABLE ==
    <<"d","a","t","a","_","a","v","a","i","l","a","b","l","e">>
ENDPOINT_HEAD == <<"h","e","a","d">>
ENDPOINT_HEADER == <<"h","e","a","d","e","r">>
ENDPOINT_NAMESPACED_DATA ==
    <<"n","a","m","e","s","p","a","c","e","d","_","d","a","t","a">>
ENDPOINT_NAMESPACED_SHARES ==
    <<"n","a","m","e","s","p","a","c","e","d","_","s","h","a","r","e","s">>
KEY_HEIGHT == <<"h","e","i","g","h","t">>

(***************************************************************************)
(* Option<T>: None is the empty sequence, Some(x) the one-element one.     *)
(***************************************************************************)
None == <<>>
Some(x) == <<x>>
IsSome(o) == Len(o) = 1
Unwrap(o) == o[1]

(***************************************************************************)
(* format!("{}", n) for an unsigned integer: its decimal digits, most      *)
(* significant first, no sign, no padding.                                 *)
(***************************************************************************)
DigitChar == <<"0","1","2","3","4","5","6","7","8","9">>

RECURSIVE DisplayU64Trunc(_)
DisplayU64Trunc(n) ==
    IF n < 10 THEN <<DigitChar[n + 1]>>
    ELSE DisplayU64Trunc((n \div 10) % 10) \o <<DigitChar[(n % 10) + 1]>>

RECURSIVE DisplayU64(_)
DisplayU64(n) ==
    IF n < 10 THEN <<DigitChar[n + 1]>>
    ELSE DisplayU64(n \div 10) \o <<DigitChar[(n % 10) + 1]>>

\* format!("{}/{}", a, b)
Format2(a, b) == a \o <<"/">> \o b
\* format!("{}/{}/{}/{}", a, b, c, d)
Format4(a, b, c, d) == a \o <<"/">> \o b \o <<"/">> \o c \o <<"/">> \o d

(***************************************************************************)
(* Path composition of the six public operations (the argument of call).   *)
(***************************************************************************)
balance_path_same(address) == ENDPOINT_BALANCE

balance_path(address) ==
    IF IsSome(address) THEN Format2(ENDPOINT_BALANCE, Unwrap(address))
    ELSE ENDPOINT_BALANCE

data_available_path(height) ==
    Format2(ENDPOINT_DATA_AVAILABLE, DisplayU64(height))

head_path == ENDPOINT_HEAD

header_path_trunc(height) ==
    Format2(ENDPOINT_HEADER, DisplayU64Trunc(height))

header_path(height) == Format2(ENDPOINT_HEADER, DisplayU64(height))

namespaced_data_path_default(namespace_id, height) ==
    Format4(ENDPOINT_NAMESPACED_DATA, namespace_id, KEY_HEIGHT,
            DisplayU64(IF IsSome(height) THEN Unwrap(height) ELSE 0))

namespaced_data_path(namespace_id, height) ==
    IF IsSome(height)
    THEN Format4(ENDPOINT_NAMESPACED_DATA, namespace_id, KEY_HEIGHT,
                 DisplayU64(Unwrap(height)))
    ELSE Format2(ENDPOINT_NAMESPACED_DATA, namespace_id)

namespaced_shares_path(namespace_id, height) ==
    IF IsSome(height)
    THEN Format4(ENDPOINT_NAMESPACED_SHARES, namespace_id, KEY_HEIGHT,
                 DisplayU64(Unwrap(height)))
    ELSE Format2(ENDPOINT_NAMESPACED_SHARES, namespace_id)

\* the URL that Context::call hands to client.get
call_url(base, endpoint) == Format2(base, endpoint)

(***************************************************************************)
(* JSON documents.                                                         *)
(***************************************************************************)
JNull == [t |-> "null"]
JBool(b) == [t |-> "bool", b |-> b]
\* a number token: int is FALSE when it has a fraction or an exponent;
\* its magnitude is hi * 65536 + lo
JNum(neg, int, hi, lo) ==
    [t |-> "num", neg |-> neg, int |-> int, hi |-> hi, lo |-> lo]
JStr(s) == [t |-> "str", s |-> s]
JArr(a) == [t |-> "arr", a |-> a]
JObj(o) == [t |-> "obj", o |-> o]
\* a body that is not a JSON document
NotJson == [t |-> "text"]

(***************************************************************************)
(* Shapes of the response types: the fields of each struct in declaration  *)
(* order, with the Rust type of each.                                      *)
(***************************************************************************)
TU32 == [k |-> "u32"]
TI64 == [k |-> "i64"]
TBool == [k |-> "bool"]
TString == [k |-> "String"]
TDateTime == [k |-> "DateTime"]
TOption(ty) == [k |-> "Option", of |-> ty]
TVec(ty) == [k |-> "Vec", of |-> ty]
TStruct(fields) == [k |-> "struct", fields |-> fields]
F(name, ty) == [name |-> name, ty |-> ty]

Version == TStruct(<<F("block", TU32), F("app", TU32)>>)

Parts == TStruct(<<F("total", TU32), F("hash", TString)>>)

BlockId == TStruct(<<F("hash", TString), F("parts", Parts)>>)

Header ==
    TStruct(<<F("version", Version), F("chain_id", TString),
              F("height", TU32), F("time", TDateTime),
              F("last_block_id", BlockId), F("last_commit_hash", TString),
              F("data_hash", TString), F("validators_hash", TString),
              F("next_validators_hash", TString),
              F("consensus_hash", TString), F("app_hash", TString),
              F("last_results_hash", TString), F("evidence_hash", TString),
              F("proposer_address", TString)>>)

Signature ==
    TStruct(<<F("block_id_flag", TU32), F("validator_address", TString),
              F("timestamp", TDateTime),
              F("signature", TOption(TString))>>)

Commit ==
    TStruct(<<F("height", TU32), F("round", TU32), F("block_id", BlockId),
              F("signatures", TVec(Signature))>>)

Validator ==
    TStruct(<<F("address", TString), F("pub_key", TString),
              F("voting_power", TU32), F("proposer_priority", TI64)>>)

ValidatorSet == TStruct(<<F("validators", TVec(Validator))>>)

DataAvailabilityHeader ==
    TStruct(<<F("row_roots", TVec(TString)),
              F("column_roots", TVec(TString))>>)

BalanceResponse == TStruct(<<F("denom", TString), F("amount", TU32)>>)

DataAvailableResponse ==
    TStruct(<<F("available", TBool),
              F("probability_of_availability", TString)>>)

HeadResponse ==
    TStruct(<<F("header", Header), F("commit", Commit),
              F("validator_set", ValidatorSet),
              F("dah", DataAvailabilityHeader)>>)

HeaderResponse ==
    TStruct(<<F("header", Header), F("commit", Commit),
              F("validator_set", ValidatorSet),
              F("dah", DataAvailabilityHeader)>>)

NamespacedDataResponse ==
    TStruct(<<F("data", TVec(TString)), F("height", TU32)>>)

NamespacedSharesResponse ==
    TStruct(<<F("shares", TOption(TVec(TString))), F("height", TU32)>>)

(***************************************************************************)
(* DateTime<Utc> on the wire: an RFC 3339 string.  Rfc3339 gives, for the  *)
(* timestamp strings of the model, the instant each denotes (seconds after *)
(* 2022-07-01T00:00:00Z); the serializer writes an instant in UTC with "Z".*)
(***************************************************************************)
Rfc3339 ==
    [s \in {"2022-07-01T00:00:00Z", "2022-07-01T02:00:00+02:00",
            "2022-07-01T00:00:01Z"} |->
        IF s = "2022-07-01T00:00:01Z" THEN 1 ELSE 0]

FormatDateTime(d) ==
    IF d.utc = 0 THEN "2022-07-01T00:00:00Z" ELSE "2022-07-01T00:00:01Z"

(***************************************************************************)
(* Deserialize.  The result is [ok |-> TRUE, v |-> value] or               *)
(* [ok |-> FALSE].  Typed values: u32 is [hi, lo] with hi, lo < 2^16, i64  *)
(* is [neg, hi, lo], a struct is a record of its fields, Vec a sequence,   *)
(* Option is None or Some(v).                                              *)
(***************************************************************************)
Fail == [ok |-> FALSE]
Ok(v) == [ok |-> TRUE, v |-> v]

FieldNames(fields) == {fields[i].name : i \in 1..Len(fields)}
FieldIndex(fields, n) == CHOOSE i \in 1..Len(fields) : fields[i].name = n

DecodeU32Wrap(j) ==
    IF j.t = "num" /\ j.int /\ ~j.neg
    THEN Ok([hi |-> j.hi % 65536, lo |-> j.lo])
    ELSE Fail

DecodeU32(j) ==
    IF j.t = "num" /\ j.int /\ ~j.neg /\ j.hi < 65536
    THEN Ok([hi |-> j.hi, lo |-> j.lo])
    ELSE Fail

DecodeI64(j) ==
    IF j.t = "num" /\ j.int
    THEN Ok([neg |-> j.neg, hi |-> j.hi, lo |-> j.lo])
    ELSE Fail

DecodeBool(j) == IF j.t = "bool" THEN Ok(j.b) ELSE Fail

DecodeString(j) == IF j.t = "str" THEN Ok(j.s) ELSE Fail

DecodeDateTime(j) ==
    IF j.t = "str" /\ j.s \in DOMAIN Rfc3339
    THEN Ok([utc |-> Rfc3339[j.s]])
    ELSE Fail

RECURSIVE Decode(_, _)
Decode(ty, j) ==
    CASE ty.k = "u32" -> DecodeU32(j)
      [] ty.k = "i64" -> DecodeI64(j)
      [] ty.k = "bool" -> DecodeBool(j)
      [] ty.k = "String" -> DecodeString(j)
      [] ty.k = "DateTime" -> DecodeDateTime(j)
      [] ty.k = "Option" ->
            IF j.t = "null" THEN Ok(None)
            ELSE LET r == Decode(ty.of, j)
                 IN  IF r.ok THEN Ok(Some(r.v)) ELSE Fail
      [] ty.k = "Vec" ->
            IF j.t # "arr" THEN Fail
            ELSE LET r == [i \in 1..Len(j.a) |-> Decode(ty.of, j.a[i])]
                 IN  IF \A i \in 1..Len(j.a) : r[i].ok
                     THEN Ok([i \in 1..Len(j.a) |-> r[i].v])
                     ELSE Fail
      [] ty.k = "struct" ->
            LET fs == ty.fields
                \* a field of a map: the value under its name; an absent
                \* Option field is None, any other absent field an error
                FromMap(i) ==
                    IF fs[i].name \in DOMAIN j.o
                    THEN Decode(fs[i].ty, j.o[fs[i].name])
                    ELSE IF fs[i].ty.k = "Option" THEN Ok(None) ELSE Fail
                \* a struct is also read from an array of its fields in
                \* declaration order
                FromSeq(i) == Decode(fs[i].ty, j.a[i])
                r == [i \in 1..Len(fs) |->
                        IF j.t = "obj" THEN FromMap(i) ELSE FromSeq(i)]
            IN  IF j.t = "obj" \/ (j.t = "arr" /\ Len(j.a) = Len(fs))
                THEN IF \A i \in 1..Len(fs) : r[i].ok
                     THEN Ok([n \in FieldNames(fs) |->
                                r[FieldIndex(fs, n)].v])
                     ELSE Fail
                ELSE Fail

(***************************************************************************)
(* Serialize: a struct is written as an object holding every field, None   *)
(* as null, an unsigned integer as an integer number token.                *)
(***************************************************************************)
\* a variant that writes the low 16 bits only
EncodeU32_u16(v) == JNum(FALSE, TRUE, 0, v.lo)

EncodeU32(v) == JNum(FALSE, TRUE, v.hi, v.lo)

RECURSIVE Encode(_, _)
Encode(ty, v) ==
    CASE ty.k = "u32" -> EncodeU32(v)
      [] ty.k = "i64" -> JNum(v.neg, TRUE, v.hi, v.lo)
      [] ty.k = "bool" -> JBool(v)
      [] ty.k = "String" -> JStr(v)
      [] ty.k = "DateTime" -> JStr(FormatDateTime(v))
      [] ty.k = "Option" ->
            IF IsSome(v) THEN Encode(ty.of, Unwrap(v)) ELSE JNull
      [] ty.k = "Vec" -> JArr([i \in 1..Len(v) |-> Encode(ty.of, v[i])])
      [] ty.k = "struct" ->
            JObj([n \in FieldNames(ty.fields) |->
                    Encode(ty.fields[FieldIndex(ty.fields, n)].ty, v[n])])

(***************************************************************************)
(* Errors (reqwest::Error) and results.                                    *)
(***************************************************************************)
TransportError(why) == [kind |-> "transport", why |-> why]
DecodeError == [kind |-> "decode"]
Err(e) == [ok |-> FALSE, err |-> e]

\* a response whose body could not be read to its end
Aborted == [t |-> "aborted"]

\* Response::json::<T>(): the body read to its end and parsed as JSON
\* into T
\* a variant that reports a body that is not JSON as a transport error
json_text_transport(ty, response) ==
    IF response.body.t \in {"aborted", "text"}
    THEN Err(TransportError("body"))
    ELSE LET r == Decode(ty, response.body)
         IN  IF r.ok THEN r ELSE Err(DecodeError)

\* a variant that first turns a non-success status into an error
json_status(ty, response) ==
    IF response.status # 200 THEN Err(TransportError("status"))
    ELSE IF response.body.t = "aborted" THEN Err(TransportError("body"))
    ELSE IF response.body.t = "text" THEN Err(DecodeError)
    ELSE LET r == Decode(ty, response.body)
         IN  IF r.ok THEN r ELSE Err(DecodeError)

json(ty, response) ==
    IF response.body.t = "aborted" THEN Err(TransportError("body"))
    ELSE IF response.body.t = "text" THEN Err(DecodeError)
    ELSE LET r == Decode(ty, response.body)
         IN  IF r.ok THEN r ELSE Err(DecodeError)

(***************************************************************************)
(* State.                                                                  *)
(***************************************************************************)
VARIABLES
    new_arg,    \* the base_url argument that was given to Context::new
    base_url,   \* Context.base_url
    listening,  \* whether anything accepts connections at the base URL
    pc,         \* per caller: "idle", "send" (awaiting send()),
                \* "json" (awaiting json()), "done" (the call has returned)
    op,         \* per caller: the operation invoked and its arguments
    sent,       \* per caller: the URLs of the GETs issued by this invocation
    resp,       \* per caller: the response received (Some) or None
    raised,     \* per caller: the error raised by send() or json() (Some)
    result,     \* per caller: what the operation returned (Some) or None
    codec       \* the serde round trip of one value (see RoundTrip)

vars == <<new_arg, base_url, listening, pc, op, sent, resp, raised, result,
          codec>>

callvars == <<new_arg, base_url, listening, pc, op, sent, resp, raised,
              result>>

NoOp == [name |-> "none"]

\* Context::new(base_url)
new(url) ==
    /\ new_arg = url
    /\ base_url = url

(***************************************************************************)
(* Context::call up to its first await: the URL is composed and the GET is *)
(* issued.                                                                 *)
(***************************************************************************)
call_shared(c, endpoint) ==
    /\ pc[c] = "idle"
    /\ pc' = [pc EXCEPT ![c] = "send"]
    /\ sent' = [sent EXCEPT ![c] =
                  <<IF \E d \in Callers : d # c /\ pc[d] # "idle"
                    THEN LET d == CHOOSE d \in Callers :
                                      d # c /\ pc[d] # "idle"
                         IN  sent[d][1]
                    ELSE call_url(base_url, endpoint)>>]
    /\ resp' = [resp EXCEPT ![c] = None]
    /\ raised' = [raised EXCEPT ![c] = None]
    /\ result' = [result EXCEPT ![c] = None]
    /\ UNCHANGED <<new_arg, base_url, listening, codec>>

call(c, endpoint) ==
    /\ pc[c] = "idle"
    /\ pc' = [pc EXCEPT ![c] = "send"]
    /\ sent' = [sent EXCEPT ![c] = <<call_url(base_url, endpoint)>>]
    /\ resp' = [resp EXCEPT ![c] = None]
    /\ raised' = [raised EXCEPT ![c] = None]
    /\ result' = [result EXCEPT ![c] = None]
    /\ UNCHANGED <<new_arg, base_url, listening, codec>>

(***************************************************************************)
(* The public operations.  ty is the response type that call is            *)
(* instantiated with.                                                      *)
(***************************************************************************)
balance(c, address) ==
    /\ call(c, balance_path(address))
    /\ op' = [op EXCEPT ![c] =
                [name |-> "balance", address |-> address]]

data_available(c, height) ==
    /\ call(c, data_available_path(height))
    /\ op' = [op EXCEPT ![c] =
                [name |-> "data_available", height |-> height]]

head(c) ==
    /\ call(c, head_path)
    /\ op' = [op EXCEPT ![c] = [name |-> "head"]]

header(c, height) ==
    /\ call(c, header_path(height))
    /\ op' = [op EXCEPT ![c] = [name |-> "header", height |-> height]]

namespaced_data(c, namespace_id, height) ==
    /\ call(c, namespaced_data_path(namespace_id, height))
    /\ op' = [op EXCEPT ![c] =
                [name |-> "namespaced_data", namespace_id |-> namespace_id,
                 height |-> height]]

namespaced_shares(c, namespace_id, height) ==
    /\ call(c, namespaced_shares_path(namespace_id, height))
    /\ op' = [op EXCEPT ![c] =
                [name |-> "namespaced_shares", namespace_id |-> namespace_id,
                 height |-> height]]

\* the type parameter T of call for each operation
ResponseType(name) ==
    CASE name = "balance" -> BalanceResponse
      [] name = "data_available" -> DataAvailableResponse
      [] name = "head" -> HeadResponse
      [] name = "header" -> HeaderResponse
      [] name = "namespaced_data" -> NamespacedDataResponse
      [] name = "namespaced_shares" -> NamespacedSharesResponse

(***************************************************************************)
(* self.client.get(url).send().await?                                      *)
(***************************************************************************)
\* the connection is accepted and a response arrives
send_ok(c, status, body) ==
    /\ pc[c] = "send"
    /\ listening
    /\ resp' = [resp EXCEPT ![c] = Some([status |-> status, body |-> body])]
    /\ pc' = [pc EXCEPT ![c] = "json"]
    /\ UNCHANGED <<new_arg, base_url, listening, op, sent, raised, result,
                   codec>>

\* send() fails and the retrying variant issues the request again
send_err_retry(c) ==
    /\ pc[c] = "send"
    /\ Len(sent[c]) < 3
    /\ sent' = [sent EXCEPT ![c] = Append(@, @[1])]
    /\ UNCHANGED <<new_arg, base_url, listening, pc, op, resp, raised, result,
                   codec>>

\* send() never completes
send_err_hang(c) ==
    /\ pc[c] = "send"
    /\ UNCHANGED vars

\* send() fails: nothing accepts the connection, or it breaks; the error is
\* returned by call and by the operation (the two `?`)
send_err(c) ==
    /\ pc[c] = "send"
    /\ LET e == TransportError(IF listening THEN "reset" ELSE "connect")
       IN  /\ raised' = [raised EXCEPT ![c] = Some(e)]
           /\ result' = [result EXCEPT ![c] = Some(Err(e))]
    /\ pc' = [pc EXCEPT ![c] = "done"]
    /\ UNCHANGED <<new_arg, base_url, listening, op, sent, resp, codec>>

(***************************************************************************)
(* response.json::<T>().await? and the return of call and of the operation *)
(***************************************************************************)
json_step(c) ==
    /\ pc[c] = "json"
    /\ LET r == json(ResponseType(op[c].name), Unwrap(resp[c]))
       IN  /\ raised' = [raised EXCEPT ![c] =
                           IF r.ok THEN None ELSE Some(r.err)]
           /\ result' = [result EXCEPT ![c] = Some(r)]
    /\ pc' = [pc EXCEPT ![c] = "done"]
    /\ UNCHANGED <<new_arg, base_url, listening, op, sent, resp, codec>>

\* the caller takes the result; the Context is ready for its next call
finish(c) ==
    /\ pc[c] = "done"
    /\ pc' = [pc EXCEPT ![c] = "idle"]
    /\ op' = [op EXCEPT ![c] = NoOp]
    /\ sent' = [sent EXCEPT ![c] = <<>>]
    /\ resp' = [resp EXCEPT ![c] = None]
    /\ raised' = [raised EXCEPT ![c] = None]
    /\ result' = [result EXCEPT ![c] = None]
    /\ UNCHANGED <<new_arg, base_url, listening, codec>>

(***************************************************************************)
(* Inputs.                                                                 *)
(***************************************************************************)
SeqsUpTo(S, n) == UNION {[1..k -> S] : k \in 0..n}

LOCALHOST_9999 ==
    <<"h","t","t","p",":","/","/","l","o","c","a","l","h","o","s","t",":",
      "9","9","9","9">>

BaseUrls == {DEFAULT_BASE_URL, LOCALHOST_9999}

\* address: Option<String>
Addresses ==
    {None, Some(<<"0">>), Some(<<>>), Some(<<"c","e","l","1">>),
     Some(<<"/">>)}

\* height: u64
Heights == (0..MaxSmallHeight) \cup {9, 10, 305, 2147483647}

\* namespace_id: String
NamespaceIds ==
    {<<"0","1","e","f">>, <<>>, KEY_HEIGHT,
     Format2(Format2(<<"0","1","e","f">>, KEY_HEIGHT), <<"1">>)}

OptHeights == {None} \cup {Some(h) : h \in Heights}

Statuses == {200, 404, 500}

U32Values ==
    {[hi |-> 0, lo |-> 0], [hi |-> 0, lo |-> 42],
     [hi |-> 65535, lo |-> 65535]}

\* the amounts a balance body may carry: 0, 42, 2^32 - 1, 2^32, 2^32 + 42,
\* -1, 1.5, and values that are not numbers
Amounts ==
    {JNum(FALSE, TRUE, 0, 0), JNum(FALSE, TRUE, 0, 42),
     JNum(FALSE, TRUE, 65535, 65535), JNum(FALSE, TRUE, 65536, 0),
     JNum(FALSE, TRUE, 65536, 42), JNum(TRUE, TRUE, 0, 1),
     JNum(FALSE, FALSE, 0, 1), JStr("42"), JNull}

BalanceBodies ==
    {JObj([denom |-> JStr("utia"), amount |-> n]) : n \in Amounts}
    \cup {JObj([denom |-> JStr("utia")]),
          JObj([amount |-> JNum(FALSE, TRUE, 0, 42)]),
          JObj([denom |-> JBool(TRUE), amount |-> JNum(FALSE, TRUE, 0, 42)]),
          JObj([denom |-> JStr("utia"), amount |-> JNum(FALSE, TRUE, 0, 42),
                extra |-> JNull]),
          JArr(<<JStr("utia"), JNum(FALSE, TRUE, 0, 42)>>)}

BlockIdValue ==
    [hash |-> "B10C", parts |-> [total |-> [hi |-> 0, lo |-> 1],
                                 hash |-> "9A27"]]

HeaderValue(t) ==
    [version |-> [block |-> [hi |-> 0, lo |-> 11], app |-> [hi |-> 0, lo |-> 1]],
     chain_id |-> "mamaki", height |-> [hi |-> 1, lo |-> 2],
     time |-> [utc |-> t], last_block_id |-> BlockIdValue,
     last_commit_hash |-> "1C", data_hash |-> "DA", validators_hash |-> "5A",
     next_validators_hash |-> "5B", consensus_hash |-> "C0",
     app_hash |-> "A9", last_results_hash |-> "12", evidence_hash |-> "E5",
     proposer_address |-> "ADD2"]

SignatureValues ==
    {[block_id_flag |-> [hi |-> 0, lo |-> 2], validator_address |-> "5161",
      timestamp |-> [utc |-> 0], signature |-> Some("c2ln")],
     [block_id_flag |-> [hi |-> 0, lo |-> 1], validator_address |-> "",
      timestamp |-> [utc |-> 1], signature |-> None]}

ValidatorValue(i) ==
    [address |-> "5161", pub_key |-> "a2V5",
     voting_power |-> [hi |-> 0, lo |-> i],
     proposer_priority |-> [neg |-> (i % 2 = 1), hi |-> i, lo |-> 7]]

RootValues == {"cm9vdDE=", "cm9vdDI="}

Reverse(q) == [i \in 1..Len(q) |-> q[Len(q) + 1 - i]]

\* the values of HeadResponse and HeaderResponse (the same fields)
BlockValues ==
    {[header |-> HeaderValue(Len(sigs) % 2),
      commit |-> [height |-> [hi |-> 1, lo |-> 2], round |-> [hi |-> 0, lo |-> 0],
                  block_id |-> BlockIdValue, signatures |-> sigs],
      validator_set |-> [validators |-> [i \in 1..n |-> ValidatorValue(i)]],
      dah |-> [row_roots |-> roots, column_roots |-> Reverse(roots)]] :
        sigs \in SeqsUpTo(SignatureValues, MaxListLen),
        n \in 0..MaxListLen,
        roots \in SeqsUpTo(RootValues, MaxListLen)}

BalanceValues == [denom : {"utia", ""}, amount : U32Values]

DataAvailableValues ==
    [available : BOOLEAN, probability_of_availability : {"0.9990234375"}]

NamespacedDataValues ==
    [data : SeqsUpTo({"AAE=", "AAI="}, MaxListLen), height : U32Values]

NamespacedSharesValues ==
    [shares : {None} \cup {Some(q) : q \in SeqsUpTo({"AAE=", "AAI="}, MaxListLen)},
     height : U32Values]

OperationNames ==
    {"balance", "data_available", "head", "header", "namespaced_data",
     "namespaced_shares"}

\* the values each operation can return
Values(name) ==
    CASE name = "balance" -> BalanceValues
      [] name = "data_available" -> DataAvailableValues
      [] name = "head" -> BlockValues
      [] name = "header" -> BlockValues
      [] name = "namespaced_data" -> NamespacedDataValues
      [] name = "namespaced_shares" -> NamespacedSharesValues

\* one well-formed body of each response type
GoodBodies ==
    {Encode(DataAvailableResponse,
            [available |-> TRUE,
             probability_of_availability |-> "0.9990234375"]),
     Encode(NamespacedDataResponse,
            [data |-> <<"AAE=", "AAI=">>, height |-> [hi |-> 0, lo |-> 7]]),
     Encode(NamespacedSharesResponse,
            [shares |-> Some(<<"AAE=">>), height |-> [hi |-> 0, lo |-> 7]]),
     Encode(HeadResponse,
            CHOOSE v \in BlockValues :
                /\ Len(v.commit.signatures) = 2
                /\ v.commit.signatures[1] # v.commit.signatures[2]
                /\ Len(v.validator_set.validators) = 1
                /\ Len(v.dah.row_roots) = 1)}

\* the bodies the server answers with (Aborted: the body broke off)
Bodies ==
    {NotJson, Aborted, JNull, JObj([height |-> JNum(FALSE, TRUE, 0, 7)])}
    \cup BalanceBodies \cup GoodBodies

(***************************************************************************)
(* The serde round trip of one value: a body is decoded into a response    *)
(* type, the value is serialized, and the text is decoded again.           *)
(***************************************************************************)
\* bodies that decode to the same values as canonical ones: a timestamp
\* with a UTC offset, a struct written as an array, an absent Option field
VariantBodies(name) ==
    CASE name = "balance" -> BalanceBodies
      [] name = "namespaced_shares" ->
            {JObj([height |-> JNum(FALSE, TRUE, 0, 7)]),
             JArr(<<JNull, JNum(FALSE, TRUE, 0, 7)>>)}
      [] name = "head" ->
            {LET j == Encode(HeadResponse, v)
                 h == Encode(Header, v.header)
             IN  JObj([j.o EXCEPT !.header =
                        JObj([h.o EXCEPT !.time =
                               JStr("2022-07-01T02:00:00+02:00")])]) :
                v \in {w \in BlockValues : w.commit.signatures = <<>>}}
      [] OTHER -> {NotJson}

CodecBodies(name) ==
    {Encode(ResponseType(name), v) : v \in Values(name)}
    \cup VariantBodies(name)

CodecInputs ==
    UNION {{[name |-> n, body |-> b] : b \in CodecBodies(n)} :
              n \in OperationNames}

CodecOff == [pc |-> "off"]

\* Deserialize: the value an operation returns for the body
codec_decode ==
    /\ codec.pc = "body"
    /\ LET r == Decode(ResponseType(codec.name), codec.body)
       IN  codec' = IF r.ok
                    THEN [pc |-> "value", name |-> codec.name,
                          body |-> codec.body, value |-> r.v]
                    ELSE [pc |-> "rejected", name |-> codec.name,
                          body |-> codec.body]
    /\ UNCHANGED callvars

\* Serialize
codec_encode ==
    /\ codec.pc = "value"
    /\ codec' = [pc |-> "text", name |-> codec.name, body |-> codec.body,
                 value |-> codec.value,
                 text |-> Encode(ResponseType(codec.name), codec.value)]
    /\ UNCHANGED callvars

\* Deserialize again
codec_redecode ==
    /\ codec.pc = "text"
    /\ codec' = [pc |-> "back", name |-> codec.name, body |-> codec.body,
                 value |-> codec.value, text |-> codec.text,
                 back |-> Decode(ResponseType(codec.name), codec.text)]
    /\ UNCHANGED callvars

(***************************************************************************)
(* Specifications.                                                         *)
(***************************************************************************)
Idle ==
    /\ pc = [c \in Callers |-> "idle"]
    /\ op = [c \in Callers |-> NoOp]
    /\ sent = [c \in Callers |-> <<>>]
    /\ resp = [c \in Callers |-> None]
    /\ raised = [c \in Callers |-> None]
    /\ result = [c \in Callers |-> None]

Init ==
    /\ \E url \in BaseUrls : new(url)
    /\ listening \in BOOLEAN
    /\ Idle
    /\ codec = CodecOff

\* the operations and responses of the concurrent callers
ConcAddresses == {Some(<<"0">>)}
ConcHeights == {1}
ConcIds == {<<"0","1","e","f">>}
\* one body under two statuses, and a body that is not JSON
ConcResponses ==
    {[status |-> st,
      body |-> JObj([denom |-> JStr("utia"),
                     amount |-> JNum(FALSE, TRUE, 0, 42)])] : st \in {200, 500}}
    \cup {[status |-> 200, body |-> NotJson]}

\* any number of callers share the Context; each awaits its own call
Next ==
    \E c \in Callers :
        \/ \E a \in ConcAddresses : balance(c, a)
        \/ \E h \in ConcHeights : data_available(c, h)
        \/ head(c)
        \/ \E h \in ConcHeights : header(c, h)
        \/ \E id \in ConcIds : namespaced_data(c, id, None)
        \/ \E id \in ConcIds, h \in ConcHeights :
                namespaced_shares(c, id, Some(h))
        \/ \E r \in ConcResponses : send_ok(c, r.status, r.body)
        \/ send_err(c)
        \/ json_step(c)
        \/ finish(c)

Spec == Init /\ [][Next]_vars

\* one caller, one call at a time, over all the inputs
SeqNext ==
    \/ \E a \in Addresses : balance(1, a)
    \/ \E h \in Heights : data_available(1, h)
    \/ head(1)
    \/ \E h \in Heights : header(1, h)
    \/ \E id \in NamespaceIds, h \in OptHeights : namespaced_data(1, id, h)
    \/ \E id \in NamespaceIds, h \in OptHeights : namespaced_shares(1, id, h)
    \/ \E st \in Statuses, b \in Bodies : send_ok(1, st, b)
    \/ send_err(1)
    \/ json_step(1)
    \/ finish(1)

SeqSpec == Init /\ [][SeqNext]_vars

\* the runtime polls the pending future of the call, and the transport ends
\* every connection attempt and every read
FairSpec ==
    /\ SeqSpec
    /\ WF_vars(send_err(1) \/ \E st \in Statuses, b \in Bodies :
                                  send_ok(1, st, b))
    /\ WF_vars(json_step(1))

CodecInit ==
    /\ new(DEFAULT_BASE_URL)
    /\ listening = TRUE
    /\ Idle
    /\ \E in \in CodecInputs :
          codec = [pc |-> "body", name |-> in.name, body |-> in.body]

CodecNext == codec_decode \/ codec_encode \/ codec_redecode

CodecSpec == CodecInit /\ [][CodecNext]_vars

(***************************************************************************)
(* Reading a URL back.                                                     *)
(***************************************************************************)
HasSlash(q) == \E i \in 1..Len(q) : q[i] = "/"

\* the segments of a path between its "/" separators
RECURSIVE Split(_)
Split(q) ==
    IF ~HasSlash(q) THEN <<q>>
    ELSE LET i == CHOOSE i \in 1..Len(q) :
                      q[i] = "/" /\ \A k \in 1..(i - 1) : q[k] # "/"
         IN  <<SubSeq(q, 1, i - 1)>> \o Split(SubSeq(q, i + 1, Len(q)))

IsDigit(ch) == \E i \in 1..10 : DigitChar[i] = ch
DigitValue(ch) == (CHOOSE i \in 1..10 : DigitChar[i] = ch) - 1

\* an unsigned decimal numeral: digits only, no leading zero but "0" itself
IsDecimal(q) ==
    /\ Len(q) >= 1
    /\ \A i \in 1..Len(q) : IsDigit(q[i])
    /\ (Len(q) > 1 => q[1] # "0")

RECURSIVE ParseDecimal(_)
ParseDecimal(q) ==
    IF Len(q) = 0 THEN 0
    ELSE ParseDecimal(SubSeq(q, 1, Len(q) - 1)) * 10 + DigitValue(q[Len(q)])

\* the URL of the one GET of caller c, and its part after base_url + "/"
Url(c) == sent[c][1]
Path(c) == SubSeq(Url(c), Len(new_arg) + 2, Len(Url(c)))
Active(c) == pc[c] # "idle"
Returned(c) == pc[c] = "done"
ResultOf(c) == Unwrap(result[c])
IsTransport(r) == ~r.ok /\ r.err.kind = "transport"
IsDecode(r) == ~r.ok /\ r.err.kind = "decode"

(***************************************************************************)
(* C1: no retries.  An invocation of any operation has issued exactly one  *)
(* GET, whatever became of it; when send() or json() raised an error the   *)
(* operation returned that very error, and no value in its place.          *)
(***************************************************************************)
C1_NoRetries ==
    \A c \in Callers :
        /\ Active(c) => Len(sent[c]) = 1
        /\ Returned(c) =>
              /\ resp[c] = None => raised[c] # None
              /\ raised[c] # None => ResultOf(c) = Err(Unwrap(raised[c]))
              /\ raised[c] = None => ResultOf(c).ok

C1_Witness ==
    /\ Returned(1)
    /\ op[1].name = "namespaced_shares"
    /\ raised[1] = Some(DecodeError)
    /\ Len(sent[1]) = 1

(***************************************************************************)
(* C2: balance(None) requests exactly base_url + "/balance" and            *)
(* balance(Some(addr)) exactly base_url + "/balance/" + addr; the two      *)
(* differ for every addr.                                                  *)
(***************************************************************************)
C2_BalancePaths ==
    \A c \in Callers :
        (Active(c) /\ op[c].name = "balance") =>
            /\ op[c].address = None =>
                  Url(c) = new_arg \o <<"/","b","a","l","a","n","c","e">>
            /\ IsSome(op[c].address) =>
                  /\ Url(c) = new_arg \o <<"/","b","a","l","a","n","c","e","/">>
                                      \o Unwrap(op[c].address)
                  /\ Url(c) # new_arg \o <<"/","b","a","l","a","n","c","e">>

C2_Witness ==
    /\ Active(1)
    /\ op[1].name = "balance"
    /\ op[1].address = Some(<<>>)
    /\ Path(1) = <<"b","a","l","a","n","c","e","/">>

(***************************************************************************)
(* C3: namespaced_data(id, None) and namespaced_shares(id, None).          *)
(***************************************************************************)
EndpointOf(name) ==
    IF name = "namespaced_data" THEN ENDPOINT_NAMESPACED_DATA
    ELSE ENDPOINT_NAMESPACED_SHARES

PathWithHeight(name, id, h) ==
    IF name = "namespaced_data" THEN namespaced_data_path(id, Some(h))
    ELSE namespaced_shares_path(id, Some(h))

NoHeightCall(c) ==
    /\ Active(c)
    /\ op[c].name \in {"namespaced_data", "namespaced_shares"}
    /\ op[c].height = None

\* C3 as claimed: for every namespace id the path is endpoint/id, has no
\* segment `height`, and equals the path of no call with Some(height)
C3_AsClaimed ==
    \A c \in Callers :
        NoHeightCall(c) =>
            /\ Path(c) = EndpointOf(op[c].name) \o <<"/">> \o op[c].namespace_id
            /\ \A i \in 1..Len(Split(Path(c))) : Split(Path(c))[i] # KEY_HEIGHT
            /\ \A id \in NamespaceIds, h \in Heights :
                  Path(c) # PathWithHeight(op[c].name, id, h)

\* C3 amended: for every namespace id the path is exactly endpoint/id
\* (nothing is appended after the id) and differs from the path of the call
\* with the same id and any Some(height); when the id holds no "/", the
\* path has exactly the two segments endpoint and id, and equals the path
\* of no call of the operation with Some(height), whatever its id
C3_OmitsHeight ==
    \A c \in Callers :
        NoHeightCall(c) =>
            /\ Path(c) = EndpointOf(op[c].name) \o <<"/">> \o op[c].namespace_id
            /\ \A h \in Heights :
                  Path(c) # PathWithHeight(op[c].name, op[c].namespace_id, h)
            /\ ~HasSlash(op[c].namespace_id) =>
                  /\ Split(Path(c)) =
                        <<EndpointOf(op[c].name), op[c].namespace_id>>
                  /\ \A id \in NamespaceIds, h \in Heights :
                        Path(c) # PathWithHeight(op[c].name, id, h)

C3_Witness ==
    /\ NoHeightCall(1)
    /\ op[1].name = "namespaced_data"
    /\ op[1].namespace_id = <<"0","1","e","f">>
    /\ Len(Split(Path(1))) = 2

(***************************************************************************)
(* C4: header(h), data_available(h) and namespaced_data(id, Some(h)) put   *)
(* h into the path as its unsigned decimal numeral.                        *)
(***************************************************************************)
\* q is prefix followed by the decimal numeral of h
EndsWithHeight(q, prefix, h) ==
    /\ Len(q) > Len(prefix)
    /\ SubSeq(q, 1, Len(prefix)) = prefix
    /\ LET d == SubSeq(q, Len(prefix) + 1, Len(q))
       IN  IsDecimal(d) /\ ParseDecimal(d) = h

C4_LiteralHeight ==
    \A c \in Callers :
        Active(c) =>
            /\ op[c].name = "header" =>
                  EndsWithHeight(Path(c), <<"h","e","a","d","e","r","/">>,
                                 op[c].height)
            /\ op[c].name = "data_available" =>
                  EndsWithHeight(Path(c),
                                 <<"d","a","t","a","_","a","v","a","i","l",
                                   "a","b","l","e","/">>,
                                 op[c].height)
            /\ (op[c].name = "namespaced_data" /\ IsSome(op[c].height)) =>
                  EndsWithHeight(Path(c),
                                 <<"n","a","m","e","s","p","a","c","e","d",
                                   "_","d","a","t","a","/">>
                                   \o op[c].namespace_id
                                   \o <<"/","h","e","i","g","h","t","/">>,
                                 Unwrap(op[c].height))

C4_Witness ==
    /\ Active(1)
    /\ op[1].name = "header"
    /\ op[1].height = 305
    /\ Path(1) = <<"h","e","a","d","e","r","/","3","0","5">>

(***************************************************************************)
(* C5: a body that is not JSON makes every operation fail with a decode    *)
(* error: no value is returned and no transport error is reported.         *)
(***************************************************************************)
C5_NonJsonIsDecodeError ==
    \A c \in Callers :
        (Returned(c) /\ IsSome(resp[c]) /\ Unwrap(resp[c]).body = NotJson) =>
            /\ IsDecode(ResultOf(c))
            /\ ~ResultOf(c).ok
            /\ ~IsTransport(ResultOf(c))

C5_Witness ==
    /\ Returned(1)
    /\ op[1].name = "head"
    /\ IsSome(resp[1])
    /\ Unwrap(resp[1]).body = NotJson
    /\ IsDecode(ResultOf(1))

(***************************************************************************)
(* C6: when nothing accepts the connection every operation eventually      *)
(* returns, and what it returns is a transport error: never a value, never *)
(* a decode error.                                                         *)
(***************************************************************************)
C6_RefusedIsTransportError ==
    /\ (~listening /\ pc[1] = "send") ~>
          (pc[1] = "done" /\ IsTransport(ResultOf(1)))
    /\ [](\A c \in Callers :
            (~listening /\ pc[c] = "done") =>
                (IsTransport(ResultOf(c)) /\ ~IsDecode(ResultOf(c))))

C6_Witness ==
    /\ ~listening
    /\ new_arg = LOCALHOST_9999
    /\ Returned(1)
    /\ op[1].name = "head"
    /\ IsTransport(ResultOf(1))

(***************************************************************************)
(* C7: the Context is read-only after construction.  Under every           *)
(* interleaving of the callers, base_url is the value given to new(), and  *)
(* the URL and the result of a call are those of its own arguments and its *)
(* own response, whatever the other callers do.                            *)
(***************************************************************************)
OwnPath(o) ==
    CASE o.name = "balance" -> balance_path(o.address)
      [] o.name = "data_available" -> data_available_path(o.height)
      [] o.name = "head" -> head_path
      [] o.name = "header" -> header_path(o.height)
      [] o.name = "namespaced_data" ->
            namespaced_data_path(o.namespace_id, o.height)
      [] o.name = "namespaced_shares" ->
            namespaced_shares_path(o.namespace_id, o.height)

C7_ReadOnlyContext ==
    /\ base_url = new_arg
    /\ \A c \in Callers :
          /\ Active(c) => sent[c] = <<new_arg \o <<"/">> \o OwnPath(op[c])>>
          /\ (Returned(c) /\ IsSome(resp[c])) =>
                ResultOf(c) = json(ResponseType(op[c].name), Unwrap(resp[c]))
          /\ (Returned(c) /\ resp[c] = None) => IsTransport(ResultOf(c))
    /\ \A c, d \in Callers :
          /\ (Active(c) /\ Active(d) /\ op[c] = op[d]) => sent[c] = sent[d]
          /\ (Returned(c) /\ Returned(d) /\ op[c] = op[d] /\ resp[c] = resp[d]
              /\ IsSome(resp[c])) => result[c] = result[d]

\* two calls in flight at once on the one Context, for different paths
C7_Witness ==
    /\ Returned(1)
    /\ pc[2] = "json"
    /\ op[1].name = "balance"
    /\ op[2].name = "head"
    /\ ResultOf(1).ok
    /\ Url(1) # Url(2)

(***************************************************************************)
(* C8: decoding the JSON encoding of a value that an operation returned    *)
(* succeeds and gives the same value: every field, every list in its       *)
(* order, every optional field absent exactly when it was absent.          *)
(***************************************************************************)
C8_RoundTrip ==
    codec.pc = "back" =>
        /\ codec.back.ok
        /\ codec.back.v = codec.value

C8_Witness ==
    /\ codec.pc = "back"
    /\ codec.name = "head"
    /\ Len(codec.value.commit.signatures) = 2
    /\ codec.value.commit.signatures[2].signature = None
    /\ codec.value.commit.signatures[1].signature # None
    /\ Len(codec.value.dah.row_roots) = 2
    /\ codec.value.dah.row_roots[1] # codec.value.dah.row_roots[2]
    /\ codec.back.v = codec.value

(***************************************************************************)
(* C9: for a balance body {"denom": d, "amount": n}, an integer n in       *)
(* 0 .. 2^32 - 1 gives denom d and amount n; a negative n, an n of 2^32 or *)
(* more, an n that is not an integer, or a missing required field gives a  *)
(* decode error, never a wrapped, truncated or defaulted amount.           *)
(***************************************************************************)
IsU32Token(n) == n.t = "num" /\ n.int /\ ~n.neg /\ n.hi <= 65535

C9_BalanceAmount ==
    \A c \in Callers :
        (Returned(c) /\ op[c].name = "balance" /\ IsSome(resp[c])
         /\ Unwrap(resp[c]).body.t = "obj") =>
            LET o == Unwrap(resp[c]).body.o
            IN  IF "denom" \in DOMAIN o /\ "amount" \in DOMAIN o
                THEN IF o.denom.t = "str" /\ IsU32Token(o.amount)
                     THEN /\ ResultOf(c).ok
                          /\ ResultOf(c).v.denom = o.denom.s
                          /\ ResultOf(c).v.amount.hi = o.amount.hi
                          /\ ResultOf(c).v.amount.lo = o.amount.lo
                     ELSE IsDecode(ResultOf(c))
                ELSE IsDecode(ResultOf(c))

\* GET /balance/0 answered {"denom":"utia","amount":42}
C9_Witness ==
    /\ Returned(1)
    /\ op[1] = [name |-> "balance", address |-> Some(<<"0">>)]
    /\ Path(1) = <<"b","a","l","a","n","c","e","/","0">>
    /\ IsSome(resp[1])
    /\ Unwrap(resp[1]).body =
          JObj([denom |-> JStr("utia"), amount |-> JNum(FALSE, TRUE, 0, 42)])
    /\ ResultOf(1) = Ok([denom |-> "utia", amount |-> [hi |-> 0, lo |-> 42]])

(***************************************************************************)
(* C10: the HTTP status does not decide the outcome.  Two calls of one     *)
(* operation whose responses carry the same body return the same result    *)
(* whatever the two status codes; a call returns a decoded value, a        *)
(* transport error or a decode error, and nothing else.                    *)
(***************************************************************************)
C10_StatusIgnored ==
    /\ \A c, d \in Callers :
          (Returned(c) /\ Returned(d) /\ op[c].name = op[d].name
           /\ IsSome(resp[c]) /\ IsSome(resp[d])
           /\ Unwrap(resp[c]).body = Unwrap(resp[d]).body) =>
                result[c] = result[d]
    /\ \A c \in Callers :
          Returned(c) =>
              \/ ResultOf(c).ok
              \/ ResultOf(c) \in {Err(DecodeError),
                                  Err(TransportError("connect")),
                                  Err(TransportError("reset")),
                                  Err(TransportError("body"))}

C10_Witness ==
    /\ Returned(1)
    /\ Returned(2)
    /\ op[1].name = "balance"
    /\ op[2].name = "balance"
    /\ IsSome(resp[1])
    /\ IsSome(resp[2])
    /\ Unwrap(resp[1]).status = 200
    /\ Unwrap(resp[2]).status = 500
    /\ Unwrap(resp[1]).body = Unwrap(resp[2]).body
    /\ ResultOf(1).ok
    /\ ResultOf(2).ok

====
